---- MODULE Spec2Model ----
(***************************************************************************)
(* The version-predicate DSL of TestGWMBDSL2.cpp: the PEG grammar, the     *)
(* semantic actions that evaluate an expression while it is parsed, and    *)
(* the test harness (run_test and the loop of main) that feeds it.         *)
(*                                                                         *)
(* An input is a sequence of one-character strings.  A matcher takes the   *)
(* input s, a 1-based position i and the metadata table fv, and returns    *)
(* [ok, pos, val, fv]: whether the rule matched at i, the position after   *)
(* the match, the rule's semantic value and the table after the actions    *)
(* that ran.  The table key "v" + std::to_string(num) is modelled by num.  *)
(***************************************************************************)
EXTENDS Integers, Sequences, FiniteSets, TLC

VARIABLES fileVersions, pc, input, expected, expect_parse_success,
          val, success, result, all_passed, tests_run

vars == <<fileVersions, pc, input, expected, expect_parse_success,
          val, success, result, all_passed, tests_run>>

(***************************************************************************)
(* Characters                                                              *)
(***************************************************************************)
ToLower ==
    "A" :> "a" @@ "B" :> "b" @@ "C" :> "c" @@ "D" :> "d" @@ "E" :> "e" @@
    "F" :> "f" @@ "H" :> "h" @@ "I" :> "i" @@ "M" :> "m" @@ "N" :> "n" @@
    "O" :> "o" @@ "R" :> "r" @@ "S" :> "s" @@ "T" :> "t" @@ "X" :> "x" @@
    "Z" :> "z"

Lower(c) == IF c \in DOMAIN ToLower THEN ToLower[c] ELSE c

DigitVal ==
    "0" :> 0 @@ "1" :> 1 @@ "2" :> 2 @@ "3" :> 3 @@ "4" :> 4 @@
    "5" :> 5 @@ "6" :> 6 @@ "7" :> 7 @@ "8" :> 8 @@ "9" :> 9 @@
    "a" :> 10 @@ "b" :> 11 @@ "c" :> 12 @@ "d" :> 13 @@ "e" :> 14 @@
    "f" :> 15

IsDecDigit(c) == c \in DOMAIN DigitVal /\ DigitVal[c] <= 9

IsHexDigit(c) == Lower(c) \in DOMAIN DigitVal

\* the character at position i, "" past the end of the input
CharAt(s, i) == IF i >= 1 /\ i <= Len(s) THEN s[i] ELSE ""

(***************************************************************************)
(* 32-bit int                                                              *)
(***************************************************************************)
INT_MAX == 2147483647

Pow2_16 == 65536

Pow2_15 == 32768

RECURSIVE BitOp(_, _, _, _)
\* the int whose two's complement bits are those of a and b combined by and
\* (isAnd) or by or: n value bits from the lowest on, then the sign bit
BitOp(isAnd, a, b, n) ==
    IF n = 0
    THEN LET sign == IF isAnd THEN a < 0 /\ b < 0 ELSE a < 0 \/ b < 0
         IN  IF sign THEN -1 ELSE 0
    ELSE LET x == a % 2
             y == b % 2
             bit == IF isAnd THEN (IF x = 1 /\ y = 1 THEN 1 ELSE 0)
                             ELSE (IF x = 1 \/ y = 1 THEN 1 ELSE 0)
         IN  bit + 2 * BitOp(isAnd, a \div 2, b \div 2, n - 1)

\* C++ a & b and a | b on int
BitAnd(a, b) == BitOp(TRUE, a, b, 31)

BitOr(a, b) == BitOp(FALSE, a, b, 31)

\* C++ a << 16 on int (C++20: the result modulo 2^32, as an int)
ShiftLeft16(a) ==
    LET low == a % Pow2_16
    IN  IF low >= Pow2_15 THEN (low - Pow2_16) * Pow2_16 ELSE low * Pow2_16

Abs(x) == IF x < 0 THEN -x ELSE x

\* C++ a / b and a % b on int, b /= 0: the quotient is truncated toward zero
CDiv(a, b) ==
    LET q == Abs(a) \div Abs(b)
    IN  IF (a < 0) = (b < 0) THEN q ELSE -q

CMod(a, b) == a - b * CDiv(a, b)

BoolToInt(b) == IF b THEN 1 ELSE 0

(***************************************************************************)
(* The metadata table                                                      *)
(***************************************************************************)
FileVersion(h, sz, f0, f1) == [hash |-> h, size |-> sz, fname0 |-> f0, fname1 |-> f1]

\* fileVersions.contains(val)
Contains(fv, num) == num \in DOMAIN fv

\* the table after fileVersions[val]: std::unordered_map::operator[] inserts a
\* value-initialized record when the key is absent
Subscript(fv, num) ==
    IF num \in DOMAIN fv THEN fv ELSE fv @@ (num :> FileVersion(0, 0, 0, 0))

(***************************************************************************)
(* Semantic actions.  sv is the sequence of the child values, sv[1] being  *)
(* the source's sv[0]; choice is sv.choice().  The inputs of the tests     *)
(* keep +, -, * and / within the range of int, where they are defined.     *)
(***************************************************************************)
\* COMPARE_TYPE returning 0, not the numeral, for an absent version index
COMPARE_TYPE_AbsentIsZero(sv, choice, fv) ==
    LET num == sv[1]
    IN  IF Contains(fv, num)
        THEN [val |-> CASE choice = 0 -> fv[num].hash
                        [] choice = 1 -> fv[num].size
                        [] choice = 2 -> fv[num].fname0
                        [] choice = 3 -> fv[num].fname1
                        [] OTHER ->
                             BitOr(ShiftLeft16(BitAnd(fv[num].fname0, Pow2_16 - 1)),
                                   BitAnd(fv[num].fname1, Pow2_16 - 1)),
              fv |-> fv]
        ELSE [val |-> 0, fv |-> fv]

\* COMPARE_TYPE without the contains() guard: operator[] inserts the absent key
COMPARE_TYPE_Unguarded(sv, choice, fv) ==
    LET num == sv[1]
        fv2 == Subscript(fv, num)
    IN  [val |-> CASE choice = 0 -> fv2[num].hash
                   [] choice = 1 -> fv2[num].size
                   [] choice = 2 -> fv2[num].fname0
                   [] choice = 3 -> fv2[num].fname1
                   [] OTHER ->
                        BitOr(ShiftLeft16(BitAnd(fv2[num].fname0, Pow2_16 - 1)),
                              BitAnd(fv2[num].fname1, Pow2_16 - 1)),
         fv |-> fv2]

\* COMPARE_TYPE with the last mask applied to the whole of the packed value:
\* (((fname0 & 0xFFFF) << 16) | fname1) & 0xFFFF
COMPARE_TYPE_MaskWhole(sv, choice, fv) ==
    LET num == sv[1]
    IN  IF Contains(fv, num)
        THEN [val |-> CASE choice = 0 -> fv[num].hash
                        [] choice = 1 -> fv[num].size
                        [] choice = 2 -> fv[num].fname0
                        [] choice = 3 -> fv[num].fname1
                        [] OTHER ->
                             BitAnd(BitOr(ShiftLeft16(BitAnd(fv[num].fname0, Pow2_16 - 1)),
                                          fv[num].fname1),
                                    Pow2_16 - 1),
              fv |-> fv]
        ELSE [val |-> num, fv |-> fv]

COMPARE_TYPE(sv, choice, fv) ==
    LET num == sv[1]
        fv2 == Subscript(fv, num)
    IN  IF Contains(fv, num) /\ choice \in 0..4
        THEN [val |-> CASE choice = 0 -> fv2[num].hash
                        [] choice = 1 -> fv2[num].size
                        [] choice = 2 -> fv2[num].fname0
                        [] choice = 3 -> fv2[num].fname1
                        [] choice = 4 ->
                             BitOr(ShiftLeft16(BitAnd(fv2[num].fname0, Pow2_16 - 1)),
                                   BitAnd(fv2[num].fname1, Pow2_16 - 1)),
              fv |-> fv2]
        ELSE [val |-> num, fv |-> fv]

\* NOT_OP passing the operand of `not` through
NOT_OP_PassThrough(sv, choice) == sv[1]

NOT_OP(sv, choice) ==
    IF choice = 0 THEN sv[1] ELSE BoolToInt(~(sv[1] /= 0))

RECURSIVE OrLoop(_, _, _)
OrLoop(sv, k, res) ==
    IF k > Len(sv) THEN res
    ELSE LET r == res \/ (sv[k] /= 0)
         IN  IF r THEN r ELSE OrLoop(sv, k + 1, r)

OR_OP(sv) == IF Len(sv) = 1 THEN sv[1] ELSE BoolToInt(OrLoop(sv, 1, FALSE))

RECURSIVE AndLoop(_, _, _)
AndLoop(sv, k, res) ==
    IF k > Len(sv) THEN res
    ELSE LET r == res /\ (sv[k] /= 0)
         IN  IF ~r THEN r ELSE AndLoop(sv, k + 1, r)

AND_OP(sv) == IF Len(sv) = 1 THEN sv[1] ELSE BoolToInt(AndLoop(sv, 1, TRUE))

RECURSIVE ExistsLoop(_, _, _)
ExistsLoop(sv, k, fv) ==
    IF k > Len(sv) THEN TRUE
    ELSE IF ~Contains(fv, sv[k]) THEN FALSE
    ELSE ExistsLoop(sv, k + 1, fv)

\* EXISTS looking at the first index only
EXISTS_FirstOnly(sv, fv) == [val |-> BoolToInt(Contains(fv, sv[1])), fv |-> fv]

EXISTS(sv, fv) == [val |-> BoolToInt(ExistsLoop(sv, 1, fv)), fv |-> fv]

COMP(sv) ==
    IF Len(sv) = 1 THEN sv[1]
    ELSE LET left == sv[1]
             right == sv[3]
             op_choice == sv[2]
         IN  CASE op_choice = 0 -> BoolToInt(left = right)
               [] op_choice = 1 -> BoolToInt(left /= right)
               [] op_choice = 2 -> BoolToInt(left >= right)
               [] op_choice = 3 -> BoolToInt(left <= right)
               [] op_choice = 4 -> BoolToInt(left > right)
               [] op_choice = 5 -> BoolToInt(left < right)
               [] OTHER -> 0

RECURSIVE ArithmeticLoop(_, _, _)
ArithmeticLoop(sv, i, res) ==
    IF i > Len(sv) THEN res
    ELSE LET op_choice == sv[i]
             v == sv[i + 1]
         IN  ArithmeticLoop(sv, i + 2,
                 CASE op_choice = 0 -> res + v
                   [] op_choice = 1 -> res - v
                   [] OTHER -> res)

ARITHMETIC(sv) == IF Len(sv) = 1 THEN sv[1] ELSE ArithmeticLoop(sv, 2, sv[1])

\* TermStep clearing the accumulator on a zero divisor
TermStep_ZeroClears(res, op_choice, v) ==
    CASE op_choice = 0 -> res * v
      [] op_choice = 1 -> IF v /= 0 THEN CDiv(res, v) ELSE 0
      [] op_choice = 2 -> IF v /= 0 THEN CMod(res, v) ELSE 0
      [] OTHER -> res

\* one step of the TERM loop: the accumulator after applying op_choice and v
TermStep(res, op_choice, v) ==
    CASE op_choice = 0 -> res * v
      [] op_choice = 1 -> IF v /= 0 THEN CDiv(res, v) ELSE res
      [] op_choice = 2 -> IF v /= 0 THEN CMod(res, v) ELSE res
      [] OTHER -> res

RECURSIVE TermLoop(_, _, _)
TermLoop(sv, i, res) ==
    IF i > Len(sv) THEN res
    ELSE TermLoop(sv, i + 2, TermStep(res, sv[i], sv[i + 1]))

TERM(sv) == IF Len(sv) = 1 THEN sv[1] ELSE TermLoop(sv, 2, sv[1])

RECURSIVE HexValue(_, _, _, _)
\* the base-16 value of the hex digits s[i..j-1], after the digits read so far
HexValue(s, i, j, acc) ==
    IF i >= j THEN acc ELSE HexValue(s, i + 1, j, 16 * acc + DigitVal[Lower(s[i])])

RECURSIVE DecValue(_, _, _, _)
DecValue(s, i, j, acc) ==
    IF i >= j THEN acc ELSE DecValue(s, i + 1, j, 10 * acc + DigitVal[s[i]])

\* std::stoi(text, nullptr, 16) of the text s[i..j-1] matched by HEX_NUMBER, whose
\* digits start at d: when whitespace follows the 0x prefix only the 0 is converted.
\* The hexadecimal numerals of the tests fit an int (std::stoi throws otherwise).
HEX_NUMBER(s, i, d, j) == IF d = i + 2 THEN HexValue(s, d, j, 0) ELSE 0

\* sv.token_to_number<int>() of the token s[i..j-1]: std::from_chars leaves the
\* initial 0 when the digits do not fit an int
DEC_NUMBER(s, i, j) ==
    LET n == DecValue(s, i, j, 0)
    IN  IF n > INT_MAX THEN 0 ELSE n

(***************************************************************************)
(* The grammar.  Literals, and the token boundary of DEC_NUMBER, skip the  *)
(* %whitespace that follows them; 'x'i literals ignore case.               *)
(***************************************************************************)
RECURSIVE SkipWhitespace(_, _)
\* %whitespace <- [ \t]*
SkipWhitespace(s, i) ==
    IF CharAt(s, i) \in {" ", "\t"} THEN SkipWhitespace(s, i + 1) ELSE i

\* a literal at position i: the position after it and the whitespace that
\* follows it, 0 when it does not match
Literal(s, i, lit, ignoreCase) ==
    IF /\ i >= 1
       /\ i + Len(lit) - 1 <= Len(s)
       /\ \A k \in 1..Len(lit) :
             IF ignoreCase THEN Lower(s[i + k - 1]) = Lower(lit[k])
                           ELSE s[i + k - 1] = lit[k]
    THEN SkipWhitespace(s, i + Len(lit))
    ELSE 0

\* the result r of a sub-match handed to the rest of the rule, which reads it
\* more than once
Bind(r, Rest(_)) == Rest(r)

\* the first alternative of a choice of literals that matches at i:
\* [choice, pos], pos being 0 when none matches
RECURSIVE LiteralChoice(_, _, _, _)
LiteralChoice(s, i, lits, k) ==
    IF k > Len(lits) THEN [choice |-> 0, pos |-> 0]
    ELSE Bind(Literal(s, i, lits[k], FALSE), LAMBDA p :
             IF p /= 0 THEN [choice |-> k - 1, pos |-> p]
             ELSE LiteralChoice(s, i, lits, k + 1))

HASH == <<"h", "a", "s", "h">>

SIZE == <<"s", "i", "z", "e">>

FNAME == <<"f", "n", "a", "m", "e">>

FNAME0 == <<"f", "n", "a", "m", "e", "0">>

FNAME1 == <<"f", "n", "a", "m", "e", "1">>

\* ADD_SUB_OP <- '+' / '-'
ADD_SUB_OP == << <<"+">>, <<"-">> >>

\* MUL_DIV_OP <- '*' / '/' / '%'
MUL_DIV_OP == << <<"*">>, <<"/">>, <<"%">> >>

\* COMP_OP <- '==' / '!=' / '>=' / '<=' / '>' / '<'
COMP_OP == << <<"=", "=">>, <<"!", "=">>, <<">", "=">>, <<"<", "=">>, <<">">>, <<"<">> >>

Fail(i, fv) == [ok |-> FALSE, pos |-> i, val |-> 0, fv |-> fv]

Match(p, v, fv) == [ok |-> TRUE, pos |-> p, val |-> v, fv |-> fv]

RECURSIVE HexDigitsEnd(_, _)
\* [a-fA-F0-9]+ from i: the position after the last digit (i when there is none)
HexDigitsEnd(s, i) ==
    IF IsHexDigit(CharAt(s, i)) THEN HexDigitsEnd(s, i + 1) ELSE i

RECURSIVE DecDigitsEnd(_, _)
\* [0-9]+ from i
DecDigitsEnd(s, i) ==
    IF IsDecDigit(CharAt(s, i)) THEN DecDigitsEnd(s, i + 1) ELSE i

\* HEX_NUMBER <- '0x'i [a-fA-F0-9]+
Match_HEX_NUMBER(s, i) ==
    Bind(Literal(s, i, <<"0", "x">>, TRUE), LAMBDA d :
        Bind(HexDigitsEnd(s, d), LAMBDA j :
            IF d = 0 \/ j = d THEN [ok |-> FALSE, pos |-> i, val |-> 0]
            ELSE [ok |-> TRUE, pos |-> j, val |-> HEX_NUMBER(s, i, d, j)]))

\* DEC_NUMBER <- < [0-9]+ >
Match_DEC_NUMBER(s, i) ==
    Bind(DecDigitsEnd(s, i), LAMBDA j :
        IF j = i THEN [ok |-> FALSE, pos |-> i, val |-> 0]
        ELSE [ok |-> TRUE, pos |-> SkipWhitespace(s, j), val |-> DEC_NUMBER(s, i, j)])

\* NUMBER <- HEX_NUMBER / DEC_NUMBER
Match_NUMBER(s, i) ==
    Bind(Match_HEX_NUMBER(s, i), LAMBDA h :
        IF h.ok THEN h ELSE Match_DEC_NUMBER(s, i))

\* the alternatives of COMPARE_TYPE, in the order the grammar tries them
CompareTypeKeywords == <<HASH, SIZE, FNAME0, FNAME1, FNAME>>

RECURSIVE CompareTypeChoice(_, _, _, _)
\* the alternatives from the k-th on: the first whose keyword and NUMBER both match
CompareTypeChoice(s, i, fv, k) ==
    IF k > Len(CompareTypeKeywords) THEN Fail(i, fv)
    ELSE Bind(Literal(s, i, CompareTypeKeywords[k], TRUE), LAMBDA p :
             Bind(Match_NUMBER(s, p), LAMBDA n :
                 IF p /= 0 /\ n.ok
                 THEN Bind(COMPARE_TYPE(<<n.val>>, k - 1, fv), LAMBDA a :
                          Match(n.pos, a.val, a.fv))
                 ELSE CompareTypeChoice(s, i, fv, k + 1)))

\* COMPARE_TYPE <- HASH NUMBER / SIZE NUMBER / FNAME0 NUMBER / FNAME1 NUMBER / FNAME NUMBER
Match_COMPARE_TYPE(s, i, fv) == CompareTypeChoice(s, i, fv, 1)

RECURSIVE ExistsRest(_, _, _)
\* (',' HASH NUMBER)* from i, after the values sv: [pos, sv]
ExistsRest(s, i, sv) ==
    Bind(Literal(s, i, <<",">>, FALSE), LAMBDA c :
        Bind(Literal(s, c, HASH, TRUE), LAMBDA h :
            Bind(Match_NUMBER(s, h), LAMBDA n :
                IF c /= 0 /\ h /= 0 /\ n.ok
                THEN ExistsRest(s, n.pos, Append(sv, n.val))
                ELSE [pos |-> i, sv |-> sv])))

\* EXISTS <- 'exists'i '(' HASH NUMBER (',' HASH NUMBER)* ')'
Match_EXISTS(s, i, fv) ==
    Bind(Literal(s, i, <<"e", "x", "i", "s", "t", "s">>, TRUE), LAMBDA e :
        Bind(Literal(s, e, <<"(">>, FALSE), LAMBDA o :
            Bind(Literal(s, o, HASH, TRUE), LAMBDA h :
                Bind(Match_NUMBER(s, h), LAMBDA n :
                    IF h = 0 \/ ~n.ok THEN Fail(i, fv)
                    ELSE Bind(ExistsRest(s, n.pos, <<n.val>>), LAMBDA r :
                             Bind(Literal(s, r.pos, <<")">>, FALSE), LAMBDA c :
                                 IF c = 0 THEN Fail(i, fv)
                                 ELSE Bind(EXISTS(r.sv, fv), LAMBDA a :
                                          Match(c, a.val, a.fv))))))))

RECURSIVE Match_EXPR(_, _, _)
RECURSIVE Match_COMP(_, _, _)
RECURSIVE Match_NOT_OP(_, _, _)

\* PRIMARY <- (EXISTS / COMPARE_TYPE / '(' EXPR ')' ) WHITESPACE
\* the action of PRIMARY returns sv[0]; WHITESPACE is (' ' / '\t')*
Match_PRIMARY(s, i, fv) ==
    Bind(Match_EXISTS(s, i, fv), LAMBDA x :
        IF x.ok THEN Match(SkipWhitespace(s, x.pos), x.val, x.fv)
        ELSE Bind(Match_COMPARE_TYPE(s, i, fv), LAMBDA c :
            IF c.ok THEN Match(SkipWhitespace(s, c.pos), c.val, c.fv)
            ELSE Bind(Literal(s, i, <<"(">>, FALSE), LAMBDA o :
                IF o = 0 THEN Fail(i, fv)
                ELSE Bind(Match_EXPR(s, o, fv), LAMBDA e :
                    IF ~e.ok THEN Fail(i, e.fv)
                    ELSE Bind(Literal(s, e.pos, <<")">>, FALSE), LAMBDA z :
                        IF z = 0 THEN Fail(i, e.fv)
                        ELSE Match(SkipWhitespace(s, z), e.val, e.fv))))))

\* FACTOR <- PRIMARY / NUMBER; the action of FACTOR returns sv[0]
Match_FACTOR(s, i, fv) ==
    Bind(Match_PRIMARY(s, i, fv), LAMBDA p :
        IF p.ok THEN p
        ELSE Bind(Match_NUMBER(s, i), LAMBDA n :
                 IF n.ok THEN Match(n.pos, n.val, p.fv)
                 ELSE Fail(i, p.fv)))

RECURSIVE TermRest(_, _, _, _)
\* (MUL_DIV_OP FACTOR)* from i, after the values sv: [pos, sv, fv]
TermRest(s, i, fv, sv) ==
    Bind(LiteralChoice(s, i, MUL_DIV_OP, 1), LAMBDA op :
        IF op.pos = 0 THEN [pos |-> i, sv |-> sv, fv |-> fv]
        ELSE Bind(Match_FACTOR(s, op.pos, fv), LAMBDA f :
                 IF ~f.ok THEN [pos |-> i, sv |-> sv, fv |-> f.fv]
                 ELSE TermRest(s, f.pos, f.fv, sv \o <<op.choice, f.val>>)))

\* TERM <- FACTOR (MUL_DIV_OP FACTOR)*
Match_TERM(s, i, fv) ==
    Bind(Match_FACTOR(s, i, fv), LAMBDA f :
        IF ~f.ok THEN f
        ELSE Bind(TermRest(s, f.pos, f.fv, <<f.val>>), LAMBDA r :
                 Match(r.pos, TERM(r.sv), r.fv)))

RECURSIVE ArithmeticRest(_, _, _, _)
\* (ADD_SUB_OP TERM)* from i
ArithmeticRest(s, i, fv, sv) ==
    Bind(LiteralChoice(s, i, ADD_SUB_OP, 1), LAMBDA op :
        IF op.pos = 0 THEN [pos |-> i, sv |-> sv, fv |-> fv]
        ELSE Bind(Match_TERM(s, op.pos, fv), LAMBDA f :
                 IF ~f.ok THEN [pos |-> i, sv |-> sv, fv |-> f.fv]
                 ELSE ArithmeticRest(s, f.pos, f.fv, sv \o <<op.choice, f.val>>)))

\* ARITHMETIC <- TERM (ADD_SUB_OP TERM)*
Match_ARITHMETIC(s, i, fv) ==
    Bind(Match_TERM(s, i, fv), LAMBDA f :
        IF ~f.ok THEN f
        ELSE Bind(ArithmeticRest(s, f.pos, f.fv, <<f.val>>), LAMBDA r :
                 Match(r.pos, ARITHMETIC(r.sv), r.fv)))

\* NOT_OP <- ARITHMETIC / 'not'i NOT_OP: `not` taking the operand, not the comparison
Match_NOT_OP_Operand(s, i, fv) ==
    Bind(Match_ARITHMETIC(s, i, fv), LAMBDA a :
        IF a.ok THEN Match(a.pos, NOT_OP(<<a.val>>, 0), a.fv)
        ELSE Bind(Literal(s, i, <<"n", "o", "t">>, TRUE), LAMBDA n :
            IF n = 0 THEN Fail(i, a.fv)
            ELSE Bind(Match_NOT_OP(s, n, a.fv), LAMBDA c :
                     IF ~c.ok THEN Fail(i, c.fv)
                     ELSE Match(c.pos, NOT_OP(<<c.val>>, 1), c.fv))))

\* NOT_OP <- ARITHMETIC / 'not'i COMP
Match_NOT_OP(s, i, fv) ==
    Bind(Match_ARITHMETIC(s, i, fv), LAMBDA a :
        IF a.ok THEN Match(a.pos, NOT_OP(<<a.val>>, 0), a.fv)
        ELSE Bind(Literal(s, i, <<"n", "o", "t">>, TRUE), LAMBDA n :
            IF n = 0 THEN Fail(i, a.fv)
            ELSE Bind(Match_COMP(s, n, a.fv), LAMBDA c :
                     IF ~c.ok THEN Fail(i, c.fv)
                     ELSE Match(c.pos, NOT_OP(<<c.val>>, 1), c.fv))))

RECURSIVE CompRest(_, _, _, _)
\* (COMP_OP NOT_OP)* from i
CompRest(s, i, fv, sv) ==
    Bind(LiteralChoice(s, i, COMP_OP, 1), LAMBDA op :
        IF op.pos = 0 THEN [pos |-> i, sv |-> sv, fv |-> fv]
        ELSE Bind(Match_NOT_OP(s, op.pos, fv), LAMBDA r :
                 IF ~r.ok THEN [pos |-> i, sv |-> sv, fv |-> r.fv]
                 ELSE CompRest(s, r.pos, r.fv, sv \o <<op.choice, r.val>>)))

\* COMP <- NOT_OP (COMP_OP NOT_OP)*: comparisons that chain
Match_COMP_Chained(s, i, fv) ==
    Bind(Match_NOT_OP(s, i, fv), LAMBDA l :
        IF ~l.ok THEN l
        ELSE Bind(CompRest(s, l.pos, l.fv, <<l.val>>), LAMBDA r :
                 Match(r.pos, COMP(r.sv), r.fv)))

\* COMP <- NOT_OP (COMP_OP NOT_OP)?
Match_COMP(s, i, fv) ==
    Bind(Match_NOT_OP(s, i, fv), LAMBDA l :
        IF ~l.ok THEN l
        ELSE Bind(LiteralChoice(s, l.pos, COMP_OP, 1), LAMBDA op :
                 IF op.pos = 0 THEN Match(l.pos, COMP(<<l.val>>), l.fv)
                 ELSE Bind(Match_NOT_OP(s, op.pos, l.fv), LAMBDA r :
                          IF ~r.ok THEN Match(l.pos, COMP(<<l.val>>), r.fv)
                          ELSE Match(r.pos, COMP(<<l.val, op.choice, r.val>>), r.fv))))

RECURSIVE AndRest(_, _, _, _)
\* ('and'i COMP)* from i
AndRest(s, i, fv, sv) ==
    Bind(Literal(s, i, <<"a", "n", "d">>, TRUE), LAMBDA k :
        IF k = 0 THEN [pos |-> i, sv |-> sv, fv |-> fv]
        ELSE Bind(Match_COMP(s, k, fv), LAMBDA c :
                 IF ~c.ok THEN [pos |-> i, sv |-> sv, fv |-> c.fv]
                 ELSE AndRest(s, c.pos, c.fv, Append(sv, c.val))))

\* AND_OP <- COMP ('and'i COMP)*
Match_AND_OP(s, i, fv) ==
    Bind(Match_COMP(s, i, fv), LAMBDA c :
        IF ~c.ok THEN c
        ELSE Bind(AndRest(s, c.pos, c.fv, <<c.val>>), LAMBDA r :
                 Match(r.pos, AND_OP(r.sv), r.fv)))

RECURSIVE OrRest(_, _, _, _)
\* ('or'i AND_OP)* from i
OrRest(s, i, fv, sv) ==
    Bind(Literal(s, i, <<"o", "r">>, TRUE), LAMBDA k :
        IF k = 0 THEN [pos |-> i, sv |-> sv, fv |-> fv]
        ELSE Bind(Match_AND_OP(s, k, fv), LAMBDA a :
                 IF ~a.ok THEN [pos |-> i, sv |-> sv, fv |-> a.fv]
                 ELSE OrRest(s, a.pos, a.fv, Append(sv, a.val))))

\* OR_OP <- AND_OP ('or'i AND_OP)*
Match_OR_OP(s, i, fv) ==
    Bind(Match_AND_OP(s, i, fv), LAMBDA a :
        IF ~a.ok THEN a
        ELSE Bind(OrRest(s, a.pos, a.fv, <<a.val>>), LAMBDA r :
                 Match(r.pos, OR_OP(r.sv), r.fv)))

RECURSIVE SwappedOrRest(_, _, _, _)
\* ('or'i COMP)* from i
SwappedOrRest(s, i, fv, sv) ==
    Bind(Literal(s, i, <<"o", "r">>, TRUE), LAMBDA k :
        IF k = 0 THEN [pos |-> i, sv |-> sv, fv |-> fv]
        ELSE Bind(Match_COMP(s, k, fv), LAMBDA c :
                 IF ~c.ok THEN [pos |-> i, sv |-> sv, fv |-> c.fv]
                 ELSE SwappedOrRest(s, c.pos, c.fv, Append(sv, c.val))))

\* OR_OP <- COMP ('or'i COMP)*
SwappedOr(s, i, fv) ==
    Bind(Match_COMP(s, i, fv), LAMBDA c :
        IF ~c.ok THEN c
        ELSE Bind(SwappedOrRest(s, c.pos, c.fv, <<c.val>>), LAMBDA r :
                 Match(r.pos, OR_OP(r.sv), r.fv)))

RECURSIVE SwappedAndRest(_, _, _, _)
\* ('and'i OR_OP)* from i
SwappedAndRest(s, i, fv, sv) ==
    Bind(Literal(s, i, <<"a", "n", "d">>, TRUE), LAMBDA k :
        IF k = 0 THEN [pos |-> i, sv |-> sv, fv |-> fv]
        ELSE Bind(SwappedOr(s, k, fv), LAMBDA o :
                 IF ~o.ok THEN [pos |-> i, sv |-> sv, fv |-> o.fv]
                 ELSE SwappedAndRest(s, o.pos, o.fv, Append(sv, o.val))))

\* the grammar with the two levels exchanged, `or` binding tighter than `and`:
\* EXPR <- AND_OP, AND_OP <- OR_OP ('and'i OR_OP)*, OR_OP <- COMP ('or'i COMP)*
Match_EXPR_OrBindsTighter(s, i, fv) ==
    Bind(SwappedOr(s, i, fv), LAMBDA o :
        IF ~o.ok THEN o
        ELSE Bind(SwappedAndRest(s, o.pos, o.fv, <<o.val>>), LAMBDA r :
                 Match(r.pos, AND_OP(r.sv), r.fv)))

\* EXPR <- OR_OP; EXPR has no action and passes the value of OR_OP on
Match_EXPR(s, i, fv) == Match_OR_OP(s, i, fv)

(***************************************************************************)
(* peg::parser::parse(input, val): leading whitespace is skipped, the      *)
(* start rule must match the whole input, and val is assigned only then.   *)
(***************************************************************************)
parse(s, v, fv) ==
    Bind(Match_EXPR(s, SkipWhitespace(s, 1), fv), LAMBDA r :
        LET matched == r.ok /\ r.pos = Len(s) + 1
        IN  [success |-> matched,
             val |-> IF matched THEN r.val ELSE v,
             fv |-> r.fv])

(***************************************************************************)
(* Metadata tables: the sample data of main, and two more tables a caller  *)
(* may supply (sparse keys, attributes that need more than 16 bits or are  *)
(* negative, and no version at all).                                       *)
(***************************************************************************)
SampleTable ==
    (0 :> FileVersion(0, 150, 900, 980)) @@
    (1 :> FileVersion(1, 0, 911, 981)) @@
    (2 :> FileVersion(2, 200, 922, 982))

SparseTable ==
    (2 :> FileVersion(5, 0, 65539, -1)) @@
    (9 :> FileVersion(4, 77, 40000, 74565)) @@
    (10 :> FileVersion(10, 1, 1, 2))

EmptyTable == [k \in {} |-> FileVersion(0, 0, 0, 0)]

Tables == {SampleTable, SparseTable, EmptyTable}

(***************************************************************************)
(* Inputs of the tests                                                     *)
(***************************************************************************)
MaxTests == 2

MaxExistsArgs == 2

MaxNot == 3

RECURSIVE Cat(_)
\* the concatenation of the texts of a sequence
Cat(ts) == IF ts = <<>> THEN <<>> ELSE Head(ts) \o Cat(Tail(ts))

SP == <<" ">>

T_not == <<"n", "o", "t">>

T_or == <<"o", "r">>

T_and == <<"a", "n", "d">>

T_exists == <<"e", "x", "i", "s", "t", "s">>

Paren(e) == Cat(<< <<"(">>, e, <<")">> >>)

\* numerals and the version index each denotes
Numerals ==
    { [text |-> <<"0">>, value |-> 0], [text |-> <<"1">>, value |-> 1],
      [text |-> <<"2">>, value |-> 2], [text |-> <<"3">>, value |-> 3],
      [text |-> <<"9">>, value |-> 9], [text |-> <<"1", "0">>, value |-> 10],
      [text |-> <<"1", "2">>, value |-> 12], [text |-> <<"0", "0">>, value |-> 0],
      [text |-> <<"0", "2">>, value |-> 2], [text |-> <<"0", "x", "2">>, value |-> 2],
      [text |-> <<"0", "X", "a">>, value |-> 10] }

\* an attribute keyword immediately followed by a numeral
AttributeRef(kw, n) == kw \o n.text

AttributeInputs ==
    { AttributeRef(kw, n) : kw \in {HASH, SIZE, FNAME0, FNAME1, FNAME}, n \in Numerals }

\* "hash9 == 9"
Hash9Eq9 == Cat(<<HASH, <<"9">>, SP, <<"=", "=">>, SP, <<"9">>>>)

\* exists(hash N1, ..., hash Nk) for the indices ns
ExistsIndices == {0, 1, 3, 9}

RECURSIVE ExistsArgs(_)
ExistsArgs(ns) ==
    IF Len(ns) = 1 THEN HASH \o <<ToString(ns[1])>>
    ELSE Cat(<<HASH, <<ToString(ns[1])>>, <<",">>, SP, ExistsArgs(Tail(ns))>>)

ExistsText(ns) == Cat(<<T_exists, <<"(">>, ExistsArgs(ns), <<")">>>>)

IndexLists == UNION { [1..k -> ExistsIndices] : k \in 1..MaxExistsArgs }

ExistsInputs == { ExistsText(ns) : ns \in IndexLists }

\* operands of the boolean connectives
Operands ==
    { <<"0">>, <<"2">>, SIZE \o <<"1">>,
      Cat(<<HASH, <<"0">>, SP, <<"=", "=">>, SP, <<"0">>>>) }

OrAnd(a, b, c) == Cat(<<a, SP, T_or, SP, b, SP, T_and, SP, c>>)

OrParenAnd(a, b, c) == Cat(<<a, SP, T_or, SP, Paren(Cat(<<b, SP, T_and, SP, c>>))>>)

ParenOrAnd(a, b, c) == Cat(<<Paren(Cat(<<a, SP, T_or, SP, b>>)), SP, T_and, SP, c>>)

OrAndInputs == { OrAnd(a, b, c) : a \in Operands, b \in Operands, c \in Operands }

\* expressions under `not`: comparisons, and three texts COMP does not match in full
Comparisons ==
    { <<"0">>, <<"5">>, HASH \o <<"1">>, HASH \o <<"2">>,
      Cat(<<SIZE, <<"0">>, SP, <<"=", "=">>, SP, <<"1", "5", "0">>>>),
      Cat(<<<<"1">>, SP, <<"=", "=">>, SP, <<"0">>>>),
      Cat(<<<<"2">>, SP, <<"=", "=">>, SP, <<"2">>>>),
      Cat(<<<<"0">>, SP, <<"<", "=">>, SP, <<"0">>>>),
      Cat(<<T_not, SP, <<"0">>>>),
      Cat(<<<<"3">>, SP, <<"-">>, SP, <<"3">>>>),
      Paren(Cat(<<<<"1">>, SP, T_or, SP, <<"0">>>>)),
      ExistsText(<<3>>),
      Cat(<<<<"1">>, SP, T_or, SP, <<"0">>>>),
      Cat(<<<<"0">>, SP, T_and, SP, <<"1">>>>),
      Cat(<<<<"1">>, SP, <<"=", "=">>, SP, <<"1">>, SP, <<"=", "=">>, SP, <<"1">>>>) }

RECURSIVE Nots(_, _)
\* e under k prefix `not`s
Nots(k, e) == IF k = 0 THEN e ELSE Cat(<<T_not, SP, Nots(k - 1, e)>>)

NotInputs == { Nots(k, e) : k \in 0..MaxNot, e \in Comparisons }

\* accumulators and right operands of the TERM fold
Accumulators ==
    { <<"5">>, <<"0">>, <<"7">>, SIZE \o <<"0">>,
      Paren(Cat(<<<<"0">>, SP, <<"-">>, SP, <<"7">>>>)) }

Divisors == { <<"0">>, <<"2">>, Paren(Cat(<<<<"1">>, SP, <<"-">>, SP, <<"1">>>>)) }

MulDivSigns == { <<"*">>, <<"/">>, <<"%">> }

Term2(a, op, b) == Cat(<<a, SP, op, SP, b>>)

Term3(a, op, b, op2, c) == Cat(<<a, SP, op, SP, b, SP, op2, SP, c>>)

\* "5 / 0 == 5"
FiveByZeroEq5 == Cat(<<<<"5">>, SP, <<"/">>, SP, <<"0">>, SP, <<"=", "=">>, SP, <<"5">>>>)

TermInputs ==
    { Term2(a, op, b) : a \in Accumulators, op \in MulDivSigns, b \in Divisors }
    \cup { Term3(a, op, <<"0">>, op2, c) :
             a \in Accumulators, op \in {<<"/">>, <<"%">>},
             op2 \in MulDivSigns, c \in {<<"3">>, <<"0">>} }
    \cup { FiveByZeroEq5 }

\* "hash2 == hash1 not or hash2 == hash0"
MisplacedNot ==
    Cat(<<HASH, <<"2">>, SP, <<"=", "=">>, SP, HASH, <<"1">>, SP, T_not, SP, T_or, SP,
          HASH, <<"2">>, SP, <<"=", "=">>, SP, HASH, <<"0">>>>)

\* inputs the grammar does not match in full
SyntaxErrorInputs ==
    { MisplacedNot,
      <<>>,
      <<"1", " ", "2">>,
      Cat(<<<<"1">>, SP, T_or>>),
      <<"(", "1">>,
      <<"1", ")">>,
      T_not,
      HASH,
      Cat(<<<<"1">>, SP, <<"=", "=">>, SP, <<"1">>, SP, <<"=", "=">>, SP, <<"1">>>>),
      Cat(<<T_exists, <<"(">>, <<"0">>, <<")">>>>),
      Cat(<<<<"2">>, SP, <<"+">>>>),
      Cat(<<SIZE, <<"0">>, SP, <<"=">>, SP, <<"1">>>>) }

Inputs ==
    AttributeInputs \cup {Hash9Eq9} \cup ExistsInputs \cup OrAndInputs
    \cup NotInputs \cup TermInputs \cup SyntaxErrorInputs

TestCase(i, e, eps) == [input |-> i, expected |-> e, expect_parse_success |-> eps]

TestCases == { TestCase(i, e, eps) : i \in Inputs, e \in {0, 1}, eps \in BOOLEAN }

(***************************************************************************)
(* The harness: main's loop over the test cases, and run_test in steps.    *)
(* pc: "loop" (main, before a test), "parse" (run_test entered, val = 0),  *)
(* "check" (p.parse has returned), "ret" (run_test has returned), "done".  *)
(***************************************************************************)
Init ==
    /\ fileVersions \in Tables
    /\ pc = "loop"
    /\ input = <<>>
    /\ expected = 0
    /\ expect_parse_success = TRUE
    /\ val = 0
    /\ success = FALSE
    /\ result = TRUE
    /\ all_passed = TRUE
    /\ tests_run = 0

\* main calls run_test on the next test case; run_test sets val to 0
RunTestBegin ==
    /\ pc = "loop"
    /\ tests_run < MaxTests
    /\ \E tc \in TestCases :
          /\ input' = tc.input
          /\ expected' = tc.expected
          /\ expect_parse_success' = tc.expect_parse_success
    /\ val' = 0
    /\ success' = FALSE
    /\ pc' = "parse"
    /\ UNCHANGED <<fileVersions, result, all_passed, tests_run>>

\* bool success = p.parse(input, val)
Parse ==
    /\ pc = "parse"
    /\ LET r == parse(input, val, fileVersions)
       IN  /\ success' = r.success
           /\ val' = r.val
           /\ fileVersions' = r.fv
    /\ pc' = "check"
    /\ UNCHANGED <<input, expected, expect_parse_success, result, all_passed, tests_run>>

\* if (!success) if (expect_parse_success) return false
ReturnUnexpectedFailure ==
    /\ pc = "check"
    /\ ~success /\ expect_parse_success
    /\ result' = FALSE
    /\ pc' = "ret"
    /\ UNCHANGED <<fileVersions, input, expected, expect_parse_success, val, success,
                   all_passed, tests_run>>

\* if (val != expected && expect_parse_success) return false
ReturnMismatch ==
    /\ pc = "check"
    /\ ~(~success /\ expect_parse_success)
    /\ val /= expected /\ expect_parse_success
    /\ result' = FALSE
    /\ pc' = "ret"
    /\ UNCHANGED <<fileVersions, input, expected, expect_parse_success, val, success,
                   all_passed, tests_run>>

\* "Test passed": return true
ReturnPassed ==
    /\ pc = "check"
    /\ ~(~success /\ expect_parse_success)
    /\ ~(val /= expected /\ expect_parse_success)
    /\ result' = TRUE
    /\ pc' = "ret"
    /\ UNCHANGED <<fileVersions, input, expected, expect_parse_success, val, success,
                   all_passed, tests_run>>

\* all_passed = all_passed && result, and on to the next test case; the
\* parameters and locals of the call that returned are gone
LoopNext ==
    /\ pc = "ret"
    /\ all_passed' = (all_passed /\ result)
    /\ tests_run' = tests_run + 1
    /\ pc' = "loop"
    /\ input' = <<>>
    /\ expected' = 0
    /\ expect_parse_success' = TRUE
    /\ val' = 0
    /\ success' = FALSE
    /\ result' = TRUE
    /\ UNCHANGED fileVersions

\* the loop is over: main reports all_passed and returns
Finish ==
    /\ pc = "loop"
    /\ tests_run = MaxTests
    /\ pc' = "done"
    /\ UNCHANGED <<fileVersions, input, expected, expect_parse_success, val, success,
                   result, all_passed, tests_run>>

Next ==
    \/ RunTestBegin
    \/ Parse
    \/ ReturnUnexpectedFailure
    \/ ReturnMismatch
    \/ ReturnPassed
    \/ LoopNext
    \/ Finish

Spec == Init /\ [][Next]_vars

TypeOK ==
    /\ pc \in {"loop", "parse", "check", "ret", "done"}
    /\ input \in Inputs \cup {<<>>}
    /\ expected \in {0, 1}
    /\ expect_parse_success \in BOOLEAN
    /\ val \in Int
    /\ success \in BOOLEAN
    /\ result \in BOOLEAN
    /\ all_passed \in BOOLEAN
    /\ tests_run \in 0..MaxTests

(***************************************************************************)
(* Reference evaluations used by the properties                            *)
(***************************************************************************)
\* the value of the text e evaluated on its own against the table fv
Value(e, fv) == parse(e, 0, fv).val

\* e is accepted as a COMPARISON: COMP matches the whole of e
AcceptedAsCOMP(e, fv) ==
    Bind(Match_COMP(e, 1, fv), LAMBDA r : r.ok /\ r.pos = Len(e) + 1)

CompValue(e, fv) == Match_COMP(e, 1, fv).val

\* the attribute of a version record that the keyword kw names
Attribute(rec, kw) ==
    CASE kw = HASH -> rec.hash
      [] kw = SIZE -> rec.size
      [] kw = FNAME0 -> rec.fname0
      [] kw = FNAME1 -> rec.fname1

\* v holds the low 16 bits of rec.fname0 in bits 16-31 and the low 16 bits of
\* rec.fname1 in bits 0-15
IsPacked(v, rec) ==
    /\ v % Pow2_16 = rec.fname1 % Pow2_16
    /\ (v \div Pow2_16) % Pow2_16 = rec.fname0 % Pow2_16

Numeral(txt) == CHOOSE n \in Numerals : n.text = txt

\* the numeral's text is a 0 or a 1 followed by a digit, so that `fname` and the
\* numeral read as fname0 or fname1 followed by a number
ReadsAsFname01(n) ==
    /\ Len(n.text) >= 2
    /\ n.text[1] \in {"0", "1"}
    /\ IsDecDigit(n.text[2])

(***************************************************************************)
(* Properties                                                              *)
(***************************************************************************)

\* C1: in the TERM fold a '/' or '%' step whose right operand is 0 is skipped:
\* `a / 0` and `a % 0` are accepted and evaluate to a, the steps after it are
\* still applied (`a / 0 op c` evaluates as `a op c`), and `5 / 0 == 5` yields 1.
C1_DivModByZeroSkipped ==
    (pc = "check" /\ input \in TermInputs) =>
        /\ \A a \in Accumulators, op \in {<<"/">>, <<"%">>} :
              \A z \in {b \in Divisors : Value(b, fileVersions) = 0} :
                  input = Term2(a, op, z) =>
                      success /\ val = Value(a, fileVersions)
        /\ \A a \in Accumulators, op \in {<<"/">>, <<"%">>} :
              \A op2 \in MulDivSigns, c \in {<<"3">>, <<"0">>} :
                  input = Term3(a, op, <<"0">>, op2, c) =>
                      success /\ val = Value(Term2(a, op2, c), fileVersions)
        /\ input = FiveByZeroEq5 => success /\ val = 1

C1_Witness ==
    /\ pc = "check"
    /\ input = Term3(Paren(Cat(<<<<"0">>, SP, <<"-">>, SP, <<"7">>>>)),
                     <<"/">>, <<"0">>, <<"*">>, <<"3">>)
    /\ success
    /\ val = -21

\* C2: hash, size, fname0 or fname1 followed by the numeral of N evaluates to
\* that attribute of version N when N is in the table and to N itself, without
\* an error, when it is not; `hash9 == 9` yields 1 whenever 9 is absent.
C2_AttributeOrNumeral ==
    (pc = "check" /\ input \in AttributeInputs \cup {Hash9Eq9}) =>
        /\ \A kw \in {HASH, SIZE, FNAME0, FNAME1}, n \in Numerals :
              input = AttributeRef(kw, n) =>
                  /\ success
                  /\ val = IF n.value \in DOMAIN fileVersions
                           THEN Attribute(fileVersions[n.value], kw)
                           ELSE n.value
        /\ (input = Hash9Eq9 /\ 9 \notin DOMAIN fileVersions) => success /\ val = 1

C2_Witness ==
    /\ pc = "check"
    /\ input = AttributeRef(SIZE, Numeral(<<"1", "2">>))
    /\ 12 \notin DOMAIN fileVersions
    /\ 2 \in DOMAIN fileVersions
    /\ success
    /\ val = 12

C4_AndBindsTighter ==
    (pc = "check" /\ input \in OrAndInputs) =>
        \A a \in Operands, b \in Operands, c \in Operands :
            input = OrAnd(a, b, c) =>
                /\ success
                /\ val = Value(OrParenAnd(a, b, c), fileVersions)
                /\ val = BoolToInt(\/ Value(a, fileVersions) /= 0
                                   \/ /\ Value(b, fileVersions) /= 0
                                      /\ Value(c, fileVersions) /= 0)

C4_Witness ==
    /\ pc = "check"
    /\ input = OrAnd(<<"2">>, <<"0">>, <<"0">>)
    /\ success
    /\ val = 1
    /\ Value(ParenOrAnd(<<"2">>, <<"0">>, <<"0">>), fileVersions) = 0

\* C5: for every E accepted as a COMPARISON, `not not E` is accepted and
\* evaluates to 1 when E is nonzero and to 0 when E is zero.
C5_DoubleNegation ==
    (pc = "check" /\ input \in NotInputs) =>
        \A e \in Comparisons :
            (input = Nots(2, e) /\ AcceptedAsCOMP(e, fileVersions)) =>
                /\ success
                /\ val = BoolToInt(CompValue(e, fileVersions) /= 0)

C5_Witness ==
    /\ pc = "check"
    /\ input = Nots(2, <<"5">>)
    /\ AcceptedAsCOMP(<<"5">>, fileVersions)
    /\ success
    /\ val = 1

\* C6 as claimed: for every E accepted as a COMPARISON, `not not not E`
\* evaluates to the boolean complement of the value of `not E`.
C6_TripleNegationComplementsNot ==
    (pc = "check" /\ input \in NotInputs) =>
        \A e \in Comparisons :
            (input = Nots(3, e) /\ AcceptedAsCOMP(e, fileVersions)) =>
                val = BoolToInt(Value(Nots(1, e), fileVersions) = 0)

\* C6 amended: for every E accepted as a COMPARISON, `not not not E` is accepted
\* and evaluates to the value of `not E`, the boolean complement of E.
C6_TripleNegationEqualsNot ==
    (pc = "check" /\ input \in NotInputs) =>
        \A e \in Comparisons :
            (input = Nots(3, e) /\ AcceptedAsCOMP(e, fileVersions)) =>
                /\ success
                /\ val = Value(Nots(1, e), fileVersions)
                /\ val = BoolToInt(CompValue(e, fileVersions) = 0)

C6_Witness ==
    /\ pc = "check"
    /\ input = Nots(3, Cat(<<SIZE, <<"0">>, SP, <<"=", "=">>, SP, <<"1", "5", "0">>>>))
    /\ fileVersions = SampleTable
    /\ success
    /\ val = 0

C8_TableUnchanged == [][fileVersions' = fileVersions]_vars

C8_Witness ==
    /\ pc = "check"
    /\ input = AttributeRef(HASH, Numeral(<<"3">>))
    /\ 3 \notin DOMAIN fileVersions
    /\ fileVersions /= EmptyTable
    /\ success
    /\ val = 3

\* C9 as claimed: for every N in the table, `fname` immediately followed by the
\* numeral of N evaluates to the packed value of version N.
C9_FnameIsPacked ==
    (pc = "check" /\ input \in AttributeInputs) =>
        \A n \in Numerals :
            (input = AttributeRef(FNAME, n) /\ n.value \in DOMAIN fileVersions) =>
                success /\ IsPacked(val, fileVersions[n.value])

\* C9 amended: the same, for the numerals that are not a 0 or a 1 followed by a
\* digit (`fname10` is fname1 of version 0, `fname02` is fname0 of version 2).
C9_FnameIsPackedUnlessFname01 ==
    (pc = "check" /\ input \in AttributeInputs) =>
        \A n \in Numerals :
            (/\ input = AttributeRef(FNAME, n)
             /\ n.value \in DOMAIN fileVersions
             /\ ~ReadsAsFname01(n)) =>
                success /\ IsPacked(val, fileVersions[n.value])

C9_Witness ==
    /\ pc = "check"
    /\ input = AttributeRef(FNAME, Numeral(<<"9">>))
    /\ fileVersions = SparseTable
    /\ success
    /\ val = (40000 - Pow2_16) * Pow2_16 + 9029

\* C10 as claimed: run_test returns true only if the parse was expected to
\* succeed, did, and gave the expected value, or was expected to fail and did.
C10_PassedOnlyAsExpected ==
    (pc = "ret" /\ result) =>
        \/ expect_parse_success /\ success /\ val = expected
        \/ ~expect_parse_success /\ ~success

====
